---- MODULE Spec2Model ----
(***************************************************************************)
(* Model of tts_edge_server.py: a Flask server with POST /api/tts and      *)
(* GET /api/voices.  Each handler runs an asyncio coroutine on a           *)
(* single-use ThreadPoolExecutor worker (run_async) and maps the result    *)
(* or the exception to an HTTP response.                                   *)
(*                                                                         *)
(* Strings that the code trims are sequences of one-character strings.     *)
(* JSON values are records tagged by kind.  Bytes are sequences of         *)
(* numbers.  The synthesis service and the voice listing are the           *)
(* environment: what they deliver or raise is chosen nondeterministically. *)
(***************************************************************************)
EXTENDS Naturals, Sequences, FiniteSets

\* ------------------------------------------------------------------ bounds
\* Longest stream of chunks the service delivers for one request.
MaxChunks == 2

\* Longest voice list the remote listing returns.
MaxVoices == 3

\* The requests in flight.  Flask's server handles requests on separate
\* threads, so the handlers of distinct requests interleave.
Requests == {"r1", "r2"}

\* ------------------------------------------------------- program constants
DEFAULT_VOICE ==
  <<"z","h","-","C","N","-","X","i","a","o","x","i","a","o","N","e","u","r","a","l">>

DEFAULT_RATE == <<"+","0","%">>

DEFAULT_VOLUME == <<"+","0","%">>

DEFAULT_PITCH == <<"+","0","H","z">>

FALLBACK_VOICES ==
  << [ShortName |-> "zh-CN-XiaoxiaoNeural", Locale |-> "zh-CN", Gender |-> "Female"],
     [ShortName |-> "zh-CN-YunxiNeural",    Locale |-> "zh-CN", Gender |-> "Male"],
     [ShortName |-> "zh-CN-XiaoyiNeural",   Locale |-> "zh-CN", Gender |-> "Female"],
     [ShortName |-> "zh-CN-YunjianNeural",  Locale |-> "zh-CN", Gender |-> "Male"] >>

\* ------------------------------------------------------------- JSON values
Absent == [kind |-> "absent"]

Null == [kind |-> "null"]

Str(s) == [kind |-> "str", s |-> s]

Num(n) == [kind |-> "num", n |-> n]

Digits == <<"0","1","2","3","4","5","6","7","8","9">>

\* Python's str(): the identity on a str, "None" for None, the digit for a
\* one-digit int.
PyStr(v) ==
  CASE v.kind = "str"  -> v.s
    [] v.kind = "null" -> <<"N","o","n","e">>
    [] v.kind = "num"  -> <<Digits[v.n + 1]>>

\* dict.get(key, default): the default only when the key is absent; a key
\* whose value is JSON null yields None.
DictGet(data, key, default) ==
  IF data[key].kind = "absent" THEN default ELSE data[key]

IsSpace(c) == c \in {" ", "\t", "\n"}

RECURSIVE LStrip(_)
LStrip(s) ==
  IF s # <<>> /\ IsSpace(Head(s)) THEN LStrip(Tail(s)) ELSE s

RECURSIVE RStrip(_)
RStrip(s) ==
  IF s # <<>> /\ IsSpace(s[Len(s)]) THEN RStrip(SubSeq(s, 1, Len(s) - 1)) ELSE s

\* str.strip()
Strip(s) == RStrip(LStrip(s))

\* Python's `x or d` on strings.
OrDefault(s, d) == IF s = <<>> THEN d ELSE s

\* `str(data.get(key, default)).strip() or default`
Param(data, key, default) ==
  OrDefault(Strip(PyStr(DictGet(data, key, Str(default)))), default)

\* float(v) raises ValueError on a string that is not a number.
FloatRaises(v) ==
  /\ v.kind = "str"
  /\ \/ Strip(v.s) = <<>>
     \/ \E i \in 1..Len(Strip(v.s)) :
          \A d \in DOMAIN Digits : Strip(v.s)[i] # Digits[d]

\* ---------------------------------------------------------- request bodies
\* The body of a request as request.get_json(silent=True) sees it:
\*   "none"   absent or not valid JSON            -> None
\*   "falsy"  valid JSON, not an object, falsy    (0, "", [], false, null)
\*   "truthy" valid JSON, not an object, truthy   ([1], "x", 5, true)
\*   "object" a JSON object with the fields below (an absent key is Absent)
Keys == {"text", "voice", "rate", "volume", "pitch", "connect_timeout", "receive_timeout"}

EmptyObject == [k \in Keys |-> Absent]

Object(text, voice, rate, volume, pitch, ct, rt) ==
  [json |-> "object",
   obj  |-> [k \in Keys |->
              CASE k = "text" -> text [] k = "voice" -> voice [] k = "rate" -> rate
                [] k = "volume" -> volume [] k = "pitch" -> pitch
                [] k = "connect_timeout" -> ct [] OTHER -> rt]]

\* `request.get_json(silent=True) or {}`; a truthy non-object stays as it is
\* and has no .get.
IsDict(body) == body.json # "truthy"

DataOf(body) == IF body.json = "object" THEN body.obj ELSE EmptyObject

TextValues ==
  {Absent, Null, Str(<<>>), Str(<<" ", "\t">>), Str(<<" ", "a", " ">>)}

ParamValues == {Absent, Null, Str(<<" ">>), Str(<<" ", "b">>)}

TimeoutValues == {Absent, Num(5), Str(<<"x">>)}

NonObjects == {[json |-> "none"], [json |-> "falsy"], [json |-> "truthy"]}

\* Bodies that vary the text and the timeouts.
Bodies ==
  NonObjects \cup
  { Object(t, v, Absent, Absent, Absent, ct, rt) :
      t \in TextValues, v \in {Absent, Str(<<" ", "b">>)},
      ct \in TimeoutValues, rt \in TimeoutValues }

\* Bodies that vary the four synthesis parameters.
ParamBodies ==
  { Object(t, v, r, vo, p, Absent, Absent) :
      t \in {Null, Str(<<" ", "a", " ">>)},
      v \in ParamValues, r \in ParamValues, vo \in ParamValues, p \in ParamValues }

\* Bodies of the concurrent workload.
ConcBodies ==
  { [json |-> "none"],
    Object(Str(<<" ">>), Absent, Absent, Absent, Absent, Absent, Absent),
    Object(Str(<<"a">>), Absent, Absent, Absent, Absent, Absent, Absent),
    Object(Str(<<"a">>), Absent, Absent, Absent, Absent, Str(<<"x">>), Absent) }

\* ------------------------------------------------------------------ chunks
\* A chunk of communicate.stream(): a dict with a type and, for audio, data.
Bytes(b) == [kind |-> "bytes", b |-> b]

AudioChunk(d) == [type |-> "audio", data |-> d]

Chunks ==
  { AudioChunk(Bytes(<<1>>)), AudioChunk(Bytes(<<2, 3>>)), AudioChunk(Bytes(<<>>)),
    AudioChunk(Str(<<"x">>)), AudioChunk(Absent),
    [type |-> "WordBoundary", data |-> Absent],
    [type |-> "SentenceBoundary", data |-> Bytes(<<4>>)] }

SomeChunks == { AudioChunk(Bytes(<<1>>)) }

ConcChunks ==
  { AudioChunk(Bytes(<<1>>)), AudioChunk(Bytes(<<2>>)), [type |-> "WordBoundary", data |-> Absent] }

\* ------------------------------------------------------------------- state
VARIABLES
  body,     \* body[r]: the request body the handler of r received, or NoBody
  hpc,      \* hpc[r]: where the handler of r is: idle, waiting, joining, done
  thr,      \* thr[r]: the worker thread of r: none, started, streaming, idle, exited
  fut,      \* fut[r]: the future of the submitted coroutine
  args,     \* args[r]: the arguments of synthesize_to_mp3_bytes, or NoArgs
  client,   \* client[r]: the kwargs edge_tts.Communicate was called with, or NoClient
  calls,    \* calls[r]: how many times edge_tts.Communicate was called for r
  threads,  \* threads[r]: how many worker threads were started for r
  stream,   \* stream[r]: the chunks the service has delivered on r's stream
  chunks,   \* chunks[r]: the local list `chunks` of r's coroutine
  resp,     \* resp[r]: the response of r, or NoResp
  outcome,  \* outcome[r]: how the synthesis call of r ended: none, float, ctor,
            \* stream (the stream raised) or eof (the stream ended)
  vpc,      \* /api/voices handler: idle, list, manager, returned, raised, done
  vresult,  \* what the voice listing returned, or NoResult
  vresp     \* the response of /api/voices, or NoResp

ttsVars ==
  <<body, hpc, thr, fut, args, client, calls, threads, stream, chunks, resp, outcome>>

voiceVars == <<vpc, vresult, vresp>>

vars ==
  <<body, hpc, thr, fut, args, client, calls, threads, stream, chunks, resp, outcome,
    vpc, vresult, vresp>>

NoBody == [json |-> "unset"]

NoArgs == [set |-> FALSE]

NoClient == [set |-> FALSE]

NoResp == [status |-> 0]

NoResult == [kind |-> "unset"]

Pending == [state |-> "pending"]

Value(v) == [state |-> "value", value |-> v]

Raised(e) == [state |-> "exc", exc |-> e]

Init ==
  /\ body = [r \in Requests |-> NoBody]
  /\ hpc = [r \in Requests |-> "idle"]
  /\ thr = [r \in Requests |-> "none"]
  /\ fut = [r \in Requests |-> Pending]
  /\ args = [r \in Requests |-> NoArgs]
  /\ client = [r \in Requests |-> NoClient]
  /\ calls = [r \in Requests |-> 0]
  /\ threads = [r \in Requests |-> 0]
  /\ stream = [r \in Requests |-> <<>>]
  /\ chunks = [r \in Requests |-> <<>>]
  /\ resp = [r \in Requests |-> NoResp]
  /\ outcome = [r \in Requests |-> "none"]
  /\ vpc = "idle"
  /\ vresult = NoResult
  /\ vresp = NoResp

\* --------------------------------------------------------------- responses
\* jsonify(payload), status
Json(status, payload) ==
  [status |-> status, mimetype |-> "application/json", json |-> payload, audio |-> <<>>]

\* Response(audio, mimetype="audio/mpeg")
Audio(bytes) ==
  [status |-> 200, mimetype |-> "audio/mpeg", json |-> <<>>, audio |-> bytes]

\* An exception that leaves the view function: Flask's own 500 page.
Unhandled ==
  [status |-> 500, mimetype |-> "text/html", json |-> <<>>, audio |-> <<>>]

\* ---------------------------------------------------------------- /api/tts
\* Line 102 without the strip.
TextOfNoStrip(data) == PyStr(DictGet(data, "text", Str(<<>>)))

\* text = str(data.get("text", "")).strip()
TextOf(data) == Strip(PyStr(DictGet(data, "text", Str(<<>>))))

\* The arguments the handler passes to synthesize_to_mp3_bytes.
ArgsOf(data) ==
  [set             |-> TRUE,
   text            |-> TextOf(data),
   voice           |-> Param(data, "voice", DEFAULT_VOICE),
   rate            |-> Param(data, "rate", DEFAULT_RATE),
   volume          |-> Param(data, "volume", DEFAULT_VOLUME),
   pitch           |-> Param(data, "pitch", DEFAULT_PITCH),
   connect_timeout |-> DictGet(data, "connect_timeout", Null),
   receive_timeout |-> DictGet(data, "receive_timeout", Null)]

\* The kwargs of edge_tts.Communicate; a timeout that is None is left out.
KwargsOf(a) ==
  [set             |-> TRUE,
   text            |-> a.text,
   voice           |-> a.voice,
   rate            |-> a.rate,
   volume          |-> a.volume,
   pitch           |-> a.pitch,
   connect_timeout |-> IF a.connect_timeout.kind = "null" THEN Absent ELSE a.connect_timeout,
   receive_timeout |-> IF a.receive_timeout.kind = "null" THEN Absent ELSE a.receive_timeout]

\* The handler up to the call of run_async: parse the body, validate the
\* text, and either respond or submit the coroutine to a fresh executor,
\* which starts its one worker thread.
TtsBegin(r, b) ==
  /\ hpc[r] = "idle"
  /\ body' = [body EXCEPT ![r] = b]
  /\ IF ~IsDict(b)
       THEN /\ resp' = [resp EXCEPT ![r] = Unhandled]
            /\ hpc' = [hpc EXCEPT ![r] = "done"]
            /\ UNCHANGED <<thr, args, threads>>
       ELSE IF TextOf(DataOf(b)) = <<>>
         THEN /\ resp' = [resp EXCEPT ![r] = Json(400, [error |-> "text is required"])]
              /\ hpc' = [hpc EXCEPT ![r] = "done"]
              /\ UNCHANGED <<thr, args, threads>>
         ELSE /\ args' = [args EXCEPT ![r] = ArgsOf(DataOf(b))]
              /\ thr' = [thr EXCEPT ![r] = "started"]
              /\ threads' = [threads EXCEPT ![r] = @ + 1]
              /\ hpc' = [hpc EXCEPT ![r] = "waiting"]
              /\ UNCHANGED resp
  /\ UNCHANGED <<fut, client, calls, stream, chunks, outcome>>
  /\ UNCHANGED voiceVars

\* The coroutine up to the first iteration of the stream: build the kwargs
\* (float() of a timeout may raise) and construct the client (which may
\* raise, e.g. on a voice it rejects).
WorkerStart(r, ctorRaises) ==
  /\ thr[r] = "started"
  /\ IF FloatRaises(args[r].connect_timeout) \/ FloatRaises(args[r].receive_timeout)
       THEN /\ fut' = [fut EXCEPT ![r] = Raised("ValueError")]
            /\ thr' = [thr EXCEPT ![r] = "idle"]
            /\ outcome' = [outcome EXCEPT ![r] = "float"]
            /\ UNCHANGED <<client, calls, chunks>>
       ELSE /\ client' = [client EXCEPT ![r] = KwargsOf(args[r])]
            /\ calls' = [calls EXCEPT ![r] = @ + 1]
            /\ IF ctorRaises
                 THEN /\ fut' = [fut EXCEPT ![r] = Raised("Communicate")]
                      /\ thr' = [thr EXCEPT ![r] = "idle"]
                      /\ outcome' = [outcome EXCEPT ![r] = "ctor"]
                      /\ UNCHANGED chunks
                 ELSE /\ chunks' = [chunks EXCEPT ![r] = <<>>]
                      /\ thr' = [thr EXCEPT ![r] = "streaming"]
                      /\ UNCHANGED <<fut, outcome>>
  /\ UNCHANGED <<body, hpc, args, threads, stream, resp>>
  /\ UNCHANGED voiceVars

\* The loop body without the test of the chunk's type.
AccumulateAnyType(buf, chunk) ==
  IF chunk.data.kind = "bytes" /\ chunk.data.b # <<>>
    THEN Append(buf, chunk.data.b)
    ELSE buf

\* The loop body: an audio chunk whose data is a non-empty bytes object is
\* appended; chunk.get("data", b"") of a chunk without data is b"".
Accumulate(buf, chunk) ==
  IF chunk.type = "audio"
    THEN LET data == IF chunk.data.kind = "absent" THEN Bytes(<<>>) ELSE chunk.data
         IN  IF data.kind = "bytes" /\ data.b # <<>> THEN Append(buf, data.b) ELSE buf
    ELSE buf

\* One list shared by all coroutines instead of a local one.
SharedChunks(r, chunk) == [q \in Requests |-> Accumulate(chunks[q], chunk)]

\* `chunks` is a local of the coroutine of r.
NextChunks(r, chunk) == [chunks EXCEPT ![r] = Accumulate(@, chunk)]

\* One iteration of `async for chunk in communicate.stream()`.
StreamChunk(r, chunk) ==
  /\ thr[r] = "streaming"
  /\ Len(stream[r]) < MaxChunks
  /\ stream' = [stream EXCEPT ![r] = Append(@, chunk)]
  /\ chunks' = NextChunks(r, chunk)
  /\ UNCHANGED <<body, hpc, thr, fut, args, client, calls, threads, resp, outcome>>
  /\ UNCHANGED voiceVars

\* b"".join(chunks)
RECURSIVE Join(_)
Join(buf) == IF buf = <<>> THEN <<>> ELSE Head(buf) \o Join(Tail(buf))

\* An exception in the stream swallowed: what was received is returned.
OnStreamErrorPartial(buf) == Value(Join(buf))

\* An exception raised by the stream leaves the coroutine and is set on the
\* future.
OnStreamError(buf) == Raised("stream")

\* The stream raises, before the first chunk or after some.
StreamRaise(r) ==
  /\ thr[r] = "streaming"
  /\ fut' = [fut EXCEPT ![r] = OnStreamError(chunks[r])]
  /\ thr' = [thr EXCEPT ![r] = "idle"]
  /\ outcome' = [outcome EXCEPT ![r] = "stream"]
  /\ UNCHANGED <<body, hpc, args, client, calls, threads, stream, chunks, resp>>
  /\ UNCHANGED voiceVars

\* The stream ends: the coroutine returns the joined chunks.
StreamEnd(r) ==
  /\ thr[r] = "streaming"
  /\ fut' = [fut EXCEPT ![r] = Value(Join(chunks[r]))]
  /\ thr' = [thr EXCEPT ![r] = "idle"]
  /\ outcome' = [outcome EXCEPT ![r] = "eof"]
  /\ UNCHANGED <<body, hpc, args, client, calls, threads, stream, chunks, resp>>
  /\ UNCHANGED voiceVars

\* .result() returns or raises; leaving the `with` block calls
\* shutdown(wait=True) on the executor.
ExecutorShutdown(r) ==
  /\ hpc[r] = "waiting"
  /\ fut[r].state # "pending"
  /\ hpc' = [hpc EXCEPT ![r] = "joining"]
  /\ UNCHANGED <<body, thr, fut, args, client, calls, threads, stream, chunks, resp, outcome>>
  /\ UNCHANGED voiceVars

\* The idle worker thread sees the shutdown and exits.
WorkerExit(r) ==
  /\ hpc[r] = "joining"
  /\ thr[r] = "idle"
  /\ thr' = [thr EXCEPT ![r] = "exited"]
  /\ UNCHANGED <<body, hpc, fut, args, client, calls, threads, stream, chunks, resp, outcome>>
  /\ UNCHANGED voiceVars

\* shutdown(wait=False)
NoJoin(r) == TRUE

\* shutdown(wait=True) returns once the worker thread has exited.
JoinDone(r) == thr[r] = "exited"

\* Lines 132-136 without the test for empty audio.
TtsResponseNoEmptyCheck(f) ==
  IF f.state = "exc"
    THEN Json(500, [error |-> f.exc])
    ELSE Audio(f.value)

\* Lines 132-136: the response for the outcome of run_async.
TtsResponse(f) ==
  IF f.state = "exc"
    THEN Json(500, [error |-> f.exc])
    ELSE IF f.value = <<>>
      THEN Json(500, [error |-> "empty audio"])
      ELSE Audio(f.value)

\* run_async has returned or raised: the handler builds the response.
TtsRespond(r) ==
  /\ hpc[r] = "joining"
  /\ JoinDone(r)
  /\ resp' = [resp EXCEPT ![r] = TtsResponse(fut[r])]
  /\ hpc' = [hpc EXCEPT ![r] = "done"]
  /\ UNCHANGED <<body, thr, fut, args, client, calls, threads, stream, chunks, outcome>>
  /\ UNCHANGED voiceVars

\* The steps of the request r, its body drawn from B and its chunks from C.
Tts(r, B, C) ==
  \/ \E b \in B : TtsBegin(r, b)
  \/ \E ctorRaises \in BOOLEAN : WorkerStart(r, ctorRaises)
  \/ \E c \in C : StreamChunk(r, c)
  \/ StreamRaise(r)
  \/ StreamEnd(r)
  \/ ExecutorShutdown(r)
  \/ WorkerExit(r)
  \/ TtsRespond(r)

\* One request, every kind of body and of chunk.
Next == Tts("r1", Bodies, Chunks)

Spec == Init /\ [][Next]_vars

\* One request, every combination of the synthesis parameters.
NextParams == Tts("r1", ParamBodies, SomeChunks)

SpecParams == Init /\ [][NextParams]_vars

\* Concurrent requests.
NextConc == \E r \in Requests : Tts(r, ConcBodies, ConcChunks)

SpecConc == Init /\ [][NextConc]_vars

\* ------------------------------------------------------------- /api/voices
\* The voices the remote listing may return.
RemoteVoices ==
  { [ShortName |-> "en-US-AriaNeural",     Locale |-> "en-US", Gender |-> "Female"],
    [ShortName |-> "zh-CN-XiaoxiaoNeural", Locale |-> "zh-CN", Gender |-> "Female"],
    [ShortName |-> "zh-CN-YunxiNeural",    Locale |-> "zh-CN", Gender |-> "Male"] }

VoiceLists == UNION { [1..n -> RemoteVoices] : n \in 0..MaxVoices }

\* What VoicesManager.create() returns: an object without a voices
\* attribute, or one whose voices is None or a list.
Managers ==
  { [attr |-> "missing"], [attr |-> "none"] } \cup
  { [attr |-> "list", voices |-> vs] : vs \in VoiceLists }

\* The handler up to run_async: hasattr(edge_tts, "list_voices") selects the
\* call.
VoicesBegin(hasListVoices) ==
  /\ vpc = "idle"
  /\ vpc' = IF hasListVoices THEN "list" ELSE "manager"
  /\ UNCHANGED <<vresult, vresp>>
  /\ UNCHANGED ttsVars

\* edge_tts.list_voices() returns.
ListVoicesReturn(vs) ==
  /\ vpc = "list"
  /\ vresult' = [kind |-> "list", voices |-> vs]
  /\ vpc' = "returned"
  /\ UNCHANGED vresp
  /\ UNCHANGED ttsVars

\* edge_tts.VoicesManager.create() returns.
ManagerCreateReturn(m) ==
  /\ vpc = "manager"
  /\ vresult' = [kind |-> "manager", manager |-> m]
  /\ vpc' = "returned"
  /\ UNCHANGED vresp
  /\ UNCHANGED ttsVars

\* Either call raises.
ListingRaise ==
  /\ vpc \in {"list", "manager"}
  /\ vresult' = [kind |-> "exc", exc |-> vpc]
  /\ vpc' = "returned"
  /\ UNCHANGED vresp
  /\ UNCHANGED ttsVars

\* `voices` after lines 142-146: getattr(manager, "voices", []) or []
VoicesOf(res) ==
  IF res.kind = "list"
    THEN res.voices
    ELSE IF res.manager.attr = "list" THEN res.manager.voices ELSE <<>>

\* The except branch answering with an error status.
VoicesResponseErrorStatus(res) ==
  IF res.kind = "exc"
    THEN Json(500, [ok |-> FALSE, fallback |-> TRUE, error |-> res.exc,
                    voices |-> FALLBACK_VOICES])
    ELSE Json(200, [ok |-> TRUE, fallback |-> FALSE, voices |-> VoicesOf(res)])

\* Lines 147-150.
VoicesResponse(res) ==
  IF res.kind = "exc"
    THEN Json(200, [ok |-> FALSE, fallback |-> TRUE, error |-> res.exc,
                    voices |-> FALLBACK_VOICES])
    ELSE Json(200, [ok |-> TRUE, fallback |-> FALSE, voices |-> VoicesOf(res)])

VoicesRespond ==
  /\ vpc = "returned"
  /\ vresp' = VoicesResponse(vresult)
  /\ vpc' = "done"
  /\ UNCHANGED vresult
  /\ UNCHANGED ttsVars

NextVoices ==
  \/ \E h \in BOOLEAN : VoicesBegin(h)
  \/ \E vs \in VoiceLists : ListVoicesReturn(vs)
  \/ \E m \in Managers : ManagerCreateReturn(m)
  \/ ListingRaise
  \/ VoicesRespond

SpecVoices == Init /\ [][NextVoices]_vars

\* ------------------------------------------------------------------ claims
Done(r) == hpc[r] = "done"

IsBlank(s) == \A i \in 1..Len(s) : IsSpace(s[i])

\* The body is an object whose text is a string of whitespace only.
BlankText(b) ==
  b.json = "object" /\ b.obj["text"].kind = "str" /\ IsBlank(b.obj["text"].s)

\* The body is an object whose text is a string with a visible character.
GoodText(b) ==
  b.json = "object" /\ b.obj["text"].kind = "str" /\ ~IsBlank(b.obj["text"].s)

\* The request carries no text.
NoText(b) ==
  \/ b.json = "none"
  \/ b.json = "object" /\ b.obj["text"].kind \in {"absent", "null"}

IsJsonError(rsp) ==
  rsp.mimetype = "application/json" /\ "error" \in DOMAIN rsp.json

IsAudioBytes(c) == c.type = "audio" /\ c.data.kind = "bytes" /\ c.data.b # <<>>

\* The data of the audio chunks of a stream, in stream order.
AudioData(st) ==
  LET sel == SelectSeq(st, IsAudioBytes)
  IN  [i \in 1..Len(sel) |-> sel[i].data.b]

RECURSIVE ConcatAll(_)
ConcatAll(ss) ==
  IF ss = <<>> THEN <<>>
  ELSE ConcatAll(SubSeq(ss, 1, Len(ss) - 1)) \o ss[Len(ss)]

\* C1: a request with non-blank text whose stream delivered a non-empty
\* audio chunk and ended without an exception is answered 200 audio/mpeg
\* with a non-empty body; and no 200 audio/mpeg response has an empty body.
C1_ValidTextGivesAudio ==
  \A r \in Requests :
    /\ ( /\ Done(r)
         /\ GoodText(body[r])
         /\ outcome[r] = "eof"
         /\ \E i \in 1..Len(stream[r]) : IsAudioBytes(stream[r][i]) )
       => ( /\ resp[r].status = 200
            /\ resp[r].mimetype = "audio/mpeg"
            /\ resp[r].audio # <<>> )
    /\ (resp[r].status = 200 /\ resp[r].mimetype = "audio/mpeg")
       => resp[r].audio # <<>>

C1_Witness ==
  \E r \in Requests :
    /\ Done(r)
    /\ GoodText(body[r])
    /\ outcome[r] = "eof"
    /\ Len(stream[r]) = 2
    /\ ~IsAudioBytes(stream[r][1])
    /\ IsAudioBytes(stream[r][2])
    /\ resp[r].status = 200
    /\ resp[r].audio # <<>>

\* C2: a request whose text is empty or whitespace only is answered 400
\* with a JSON error, and neither a worker thread nor the client is started.
C2_BlankTextIs400 ==
  \A r \in Requests :
    BlankText(body[r]) =>
      /\ Done(r)
      /\ resp[r].status = 400
      /\ IsJsonError(resp[r])
      /\ threads[r] = 0
      /\ thr[r] = "none"
      /\ calls[r] = 0

C2_Witness ==
  \E r \in Requests :
    /\ BlankText(body[r])
    /\ body[r].obj["text"].s # <<>>
    /\ resp[r].status = 400

\* C3: with non-blank text, a synthesis call that raised (a timeout that
\* is no number, the constructor, the stream before or after some chunks)
\* or that ended without audio bytes is answered 500 with a JSON error,
\* never with audio.
C3_FailureIs500 ==
  \A r \in Requests :
    ( /\ Done(r)
      /\ GoodText(body[r])
      /\ \/ outcome[r] \in {"float", "ctor", "stream"}
         \/ outcome[r] = "eof" /\ AudioData(stream[r]) = <<>> )
    => ( /\ resp[r].status = 500
         /\ IsJsonError(resp[r])
         /\ resp[r].audio = <<>>
         /\ resp[r].mimetype # "audio/mpeg" )

C3_Witness ==
  \E r \in Requests :
    /\ Done(r)
    /\ GoodText(body[r])
    /\ outcome[r] = "stream"
    /\ chunks[r] # <<>>
    /\ resp[r].status = 500

\* C4: a request that carries no text (no JSON body, no text key, or a
\* null text) is answered 400 and starts neither a worker nor the client.
C4_NoTextIs400 ==
  \A r \in Requests :
    (hpc[r] # "idle" /\ NoText(body[r])) =>
      /\ resp[r].status = 400
      /\ threads[r] = 0
      /\ calls[r] = 0

\* C5: every response of /api/voices has a non-empty voices list.
C5_VoicesNonEmpty ==
  vpc = "done" => vresp.json.voices # <<>>

\* C6: when the listing raised, /api/voices answers 200 with ok false,
\* fallback true and the fallback list; when it did not, ok true and
\* fallback false; ok is always the negation of fallback.
C6_FallbackOnFailure ==
  vpc = "done" =>
    /\ vresult.kind = "exc" =>
         /\ vresp.status = 200
         /\ vresp.json.ok = FALSE
         /\ vresp.json.fallback = TRUE
         /\ vresp.json.voices = FALLBACK_VOICES
    /\ vresult.kind # "exc" =>
         /\ vresp.json.ok = TRUE
         /\ vresp.json.fallback = FALSE
    /\ vresp.json.ok = ~vresp.json.fallback

C6_Witness ==
  /\ vpc = "done"
  /\ vresult.kind = "exc"
  /\ vresp.json.voices = FALLBACK_VOICES

\* The value the claim C7 expects the client to get for a parameter.
ExpectedParam(v, default) ==
  IF v.kind = "str" /\ ~IsBlank(v.s) THEN Strip(v.s) ELSE default

\* C7: the client gets, for voice, rate, volume and pitch, a non-empty
\* string: the trimmed value of the request when it has a non-blank one,
\* and the default otherwise.
C7_ParamsOrDefaults ==
  \A r \in Requests :
    client[r].set =>
      /\ client[r].voice # <<>> /\ client[r].rate # <<>>
      /\ client[r].volume # <<>> /\ client[r].pitch # <<>>
      /\ client[r].voice = ExpectedParam(body[r].obj["voice"], DEFAULT_VOICE)
      /\ client[r].rate = ExpectedParam(body[r].obj["rate"], DEFAULT_RATE)
      /\ client[r].volume = ExpectedParam(body[r].obj["volume"], DEFAULT_VOLUME)
      /\ client[r].pitch = ExpectedParam(body[r].obj["pitch"], DEFAULT_PITCH)

\* The response a request gets from its own body, its own stream and the
\* way its own synthesis call ended.
OwnResponse(r) ==
  IF ~GoodText(body[r])
    THEN Json(400, [error |-> "text is required"])
    ELSE IF outcome[r] = "eof" /\ AudioData(stream[r]) # <<>>
      THEN Audio(ConcatAll(AudioData(stream[r])))
      ELSE Json(500, [error |->
             CASE outcome[r] = "float" -> "ValueError"
               [] outcome[r] = "ctor" -> "Communicate"
               [] outcome[r] = "stream" -> "stream"
               [] OTHER -> "empty audio"])

\* C8: under any interleaving of requests, the buffer of a request holds
\* the audio chunks of its own stream only, in stream order, and its
\* response is the one its own body and stream determine.
C8_RequestsIsolated ==
  \A r \in Requests :
    /\ chunks[r] = AudioData(stream[r])
    /\ Done(r) => resp[r] = OwnResponse(r)

C8_Witness ==
  /\ Done("r1") /\ Done("r2")
  /\ resp["r1"].status = 200 /\ resp["r2"].status = 200
  /\ Len(stream["r1"]) = 2 /\ Len(stream["r2"]) = 2
  /\ resp["r1"].audio # resp["r2"].audio

\* C9: when the stream ends without an exception, the coroutine returns
\* the concatenation, in stream order, of the data of the chunks that are
\* audio with non-empty bytes; no other chunk contributes.
C9_JoinOfAudioChunks ==
  \A r \in Requests :
    outcome[r] = "eof" =>
      /\ fut[r].state = "value"
      /\ fut[r].value = ConcatAll(AudioData(stream[r]))

C9_Witness ==
  \E r \in Requests :
    /\ outcome[r] = "eof"
    /\ Len(stream[r]) = 2
    /\ stream[r][1].type = "SentenceBoundary"
    /\ IsAudioBytes(stream[r][2])
    /\ fut[r].value = stream[r][2].data.b

\* C10 as stated: a request with non-blank text, once answered, has
\* started one worker thread, called the client once, and its worker
\* thread has exited.
C10_ExactlyOneCall ==
  \A r \in Requests :
    (Done(r) /\ GoodText(body[r])) =>
      /\ threads[r] = 1
      /\ calls[r] = 1
      /\ thr[r] = "exited"

\* A timeout of the body that float() rejects.
BadTimeout(b) ==
  FloatRaises(b.obj["connect_timeout"]) \/ FloatRaises(b.obj["receive_timeout"])

\* C10 amended: a request with non-blank text starts one worker thread and
\* calls the client at most once: once, unless a timeout is no number and
\* the worker raises before the client is constructed, and then never.
\* There is no second attempt after a failure, and the worker thread has
\* exited before the response is produced.
C10_OneWorkerAtMostOneCall ==
  \A r \in Requests :
    (hpc[r] # "idle" /\ GoodText(body[r])) =>
      /\ threads[r] = 1
      /\ calls[r] <= 1
      /\ Done(r) =>
           /\ thr[r] = "exited"
           /\ calls[r] = IF BadTimeout(body[r]) THEN 0 ELSE 1

C10_Witness ==
  \E r \in Requests :
    /\ Done(r)
    /\ GoodText(body[r])
    /\ outcome[r] = "stream"
    /\ resp[r].status = 500
    /\ threads[r] = 1
    /\ calls[r] = 1
    /\ thr[r] = "exited"

====
